---------------------------- MODULE Spec2Model ----------------------------
(***************************************************************************)
(* A model of onetree: the node model (Leaf / Split / Tree / Forest), the  *)
(* evaluator calculate_value, and the greedy-runtime simplifier (census,   *)
(* split selection, forest filter, leaf collapse, bucket merger, simplify).*)
(*                                                                         *)
(* Numbers.  Leaf values and census weights are Python floats; they are    *)
(* modelled as exact rationals <<num, den>> in lowest terms, so that the   *)
(* mean of a Forest and the quotient sum/len of collapse_leaf_forest are   *)
(* computed, not assumed.  Cut points and feature values are integers, and *)
(* float('inf') is the integer INF, above every finite cut point and value.*)
(***************************************************************************)
EXTENDS Integers, Sequences, FiniteSets, TLC

VARIABLES
    forest,      \* simplify: the forest handed to the outermost call
    bucketize,   \* simplify / merge_buckets: the bucketize_fn argument
    dict_order,  \* simplify: the iteration order of the interpreter's dicts
    stack,       \* simplify: the activation records of the recursion
    result,      \* simplify: the value returned (or the error raised)
    node,        \* evaluator: the node built by the construction step
    args,        \* evaluator / merger: the arguments of the last call
    val_dict,    \* evaluator: the assignment handed to calculate_value
    value        \* evaluator / merger: what the last call returned

vars == <<forest, bucketize, dict_order, stack, result, node, args, val_dict, value>>

-----------------------------------------------------------------------------
(* Bounds of the model.                                                    *)

\* Leaf values of the input nodes are 0 .. MaxLeaf.
MaxLeaf == 1
\* An input Forest has 1 .. MaxTrees members.
MaxTrees == 2

\* onetree_common.INF: float('inf').
INF == 1000

\* The features of the test fixtures: X_1, X_2, X_3.
Feats == {1, 2, 3}
\* The interior cut points input trees are built from, and the finite
\* feature values they are evaluated at: below, at, between and above them.
CutPoints == {2, 4}
FeatVals == 1..5

-----------------------------------------------------------------------------
(* Rational arithmetic (Python float arithmetic on small exact values).    *)

RECURSIVE GCD(_, _)
GCD(a, b) == IF b = 0 THEN a ELSE GCD(b, a % b)

Abs(x) == IF x < 0 THEN -x ELSE x

Rat(n, d) ==
    LET g == GCD(Abs(n), d) IN <<n \div g, d \div g>>

RAdd(p, q) == Rat(p[1] * q[2] + q[1] * p[2], p[2] * q[2])
RSub(p, q) == Rat(p[1] * q[2] - q[1] * p[2], p[2] * q[2])
RDivInt(p, k) == Rat(p[1], p[2] * k)
RLess(p, q) == p[1] * q[2] < q[1] * p[2]

RECURSIVE RSum(_)
RSum(s) == IF s = <<>> THEN <<0, 1>> ELSE RAdd(Head(s), RSum(Tail(s)))

SetMin(S) == CHOOSE x \in S : \A y \in S : x <= y

-----------------------------------------------------------------------------
(* Node model: onetree_common.py                                           *)

Leaf(v) == [kind |-> "Leaf", value |-> v]
Split(f, lo, hi) == [feature |-> f, min |-> lo, max |-> hi]
Tree(f, splits, children) ==
    [kind |-> "Tree", feature |-> f, splits |-> splits, children |-> children]
Forest(trees) == [kind |-> "Forest", trees |-> trees]

\* An exception raised instead of a return value.
Raise(e) == [kind |-> "Error", error |-> e]
IsError(x) == x.kind = "Error"

\* The first error of a sequence of results, in evaluation order.
FirstError(s) == s[SetMin({i \in 1..Len(s) : IsError(s[i])})]
AnyError(s) == \E i \in 1..Len(s) : IsError(s[i])

\* make_tree(var, cutpoints, children): no check relates children to cutpoints.
make_tree(var, cutpoints, children) ==
    LET n == Len(cutpoints)
        splits == [i \in 1..(n + 1) |->
                     Split(var,
                           IF i = 1 THEN -INF ELSE cutpoints[i - 1],
                           IF i = n + 1 THEN INF ELSE cutpoints[i])]
    IN Tree(var, splits, children)

\* zip(a, b) stops at the shorter of the two.
ZipLen(a, b) == IF Len(a) < Len(b) THEN Len(a) ELSE Len(b)

Val(q) == [kind |-> "Val", v |-> q]

\* Mutant: the interval test with the closed end on the wrong side.
CvMatchesLowerClosed(split, feature_val) ==
    split.min <= feature_val /\ feature_val < split.max

\* calculate_value line 58: split.min < feature_val <= split.max
CvMatches(split, feature_val) ==
    split.min < feature_val /\ feature_val <= split.max

\* Mutant: a missing feature reads as the value 0 instead of raising.
CvLookupDefault(n, vd) ==
    IF n.feature \in DOMAIN vd THEN Val(<<vd[n.feature], 1>>) ELSE Val(<<0, 1>>)

\* calculate_value line 56: val_dict[node.feature], KeyError when absent.
CvLookup(n, vd) ==
    IF n.feature \in DOMAIN vd THEN Val(<<vd[n.feature], 1>>) ELSE Raise("KeyError")

RECURSIVE calculate_value(_, _)
calculate_value(n, vd) ==
    IF n.kind = "Leaf" THEN Val(n.value)
    ELSE IF n.kind = "Tree" THEN
        LET looked == CvLookup(n, vd) IN
        IF IsError(looked) THEN looked
        ELSE LET feature_val == looked.v[1]
                 hits == {i \in 1..ZipLen(n.splits, n.children) :
                            CvMatches(n.splits[i], feature_val)}
             IN IF hits = {} THEN Raise("NotImplementedError")
                ELSE calculate_value(n.children[SetMin(hits)], vd)
    ELSE IF n.kind = "Forest" THEN
        LET vals == [i \in 1..Len(n.trees) |-> calculate_value(n.trees[i], vd)] IN
        IF AnyError(vals) THEN FirstError(vals)
        ELSE IF Len(vals) = 0 THEN Raise("NaN")
        ELSE Val(RDivInt(RSum([i \in 1..Len(vals) |-> vals[i].v]), Len(vals)))
    ELSE Raise("NotImplementedError")

-----------------------------------------------------------------------------
(* Leaf collapse and bucket merger: simplify_common.py                     *)

\* Mutant: the sum of the leaf values, not divided by their number.
CollapseSum(f) ==
    IF \E i \in 1..Len(f.trees) : f.trees[i].kind # "Leaf"
    THEN Raise("AttributeError")
    ELSE Leaf(RSum([i \in 1..Len(f.trees) |-> f.trees[i].value]))

\* collapse_leaf_forest: sum(leaf.value ...) / len(forest.trees).  Reading
\* .value of a member that is no Leaf raises AttributeError.
collapse_leaf_forest(f) ==
    IF \E i \in 1..Len(f.trees) : f.trees[i].kind # "Leaf"
    THEN Raise("AttributeError")
    ELSE IF Len(f.trees) = 0 THEN Raise("ZeroDivisionError")
    ELSE Leaf(RDivInt(RSum([i \in 1..Len(f.trees) |-> f.trees[i].value]),
                      Len(f.trees)))

\* The bucketize functions of the model: None (absent), int(x) (the demo's
\* int(x / bucket_size) * bucket_size with bucket_size 1), and a classifier
\* threshold x >= 1/2.
BucketizeFns == {"None", "Trunc", "Half"}

ApplyBucketize(fn, v) ==
    IF fn = "Trunc" THEN <<v[1] \div v[2], 1>>
    ELSE IF RLess(v, <<1, 2>>) THEN <<0, 1>> ELSE <<1, 1>>

\* merge_buckets line 22-23: a Leaf child is replaced by Leaf(bucketize_fn(value)).
MbBucketized(child, fn) ==
    IF child.kind = "Leaf" THEN Leaf(ApplyBucketize(fn, child.value)) ELSE child

\* Mutant: the split is appended on every turn, merged or not.
MbStepAlwaysAppendsSplit(acc, split, child0, fn) ==
    IF IsError(acc) THEN acc
    ELSE LET child == MbBucketized(child0, fn)
             n == Len(acc.children)
         IN IF n > 0 /\ acc.children[n] = child
            THEN [acc EXCEPT !.splits = Append(@, split)]
            ELSE [kind |-> "Pair",
                  splits |-> Append(acc.splits, split),
                  children |-> Append(acc.children, child)]

\* Mutant: a merged entry is dropped, the retained split is left as it was.
MbStepDropsMerged(acc, split, child0, fn) ==
    IF IsError(acc) THEN acc
    ELSE LET child == MbBucketized(child0, fn)
             n == Len(acc.children)
         IN IF n > 0 /\ acc.children[n] = child
            THEN acc
            ELSE [kind |-> "Pair",
                  splits |-> Append(acc.splits, split),
                  children |-> Append(acc.children, child)]

\* One turn of the loop of merge_buckets over acc = the retained lists.
MbStep(acc, split, child0, fn) ==
    IF IsError(acc) THEN acc
    ELSE LET child == MbBucketized(child0, fn)
             n == Len(acc.children)
         IN IF n > 0 /\ acc.children[n] = child
            THEN IF acc.splits[n].feature # split.feature
                 THEN Raise("AssertionError")
                 ELSE [acc EXCEPT !.splits[n].max = split.max]
            ELSE [kind |-> "Pair",
                  splits |-> Append(acc.splits, split),
                  children |-> Append(acc.children, child)]

RECURSIVE MbLoop(_, _, _, _)
MbLoop(splits, children, fn, k) ==
    IF k = 0 THEN [kind |-> "Pair", splits |-> <<>>, children |-> <<>>]
    ELSE MbStep(MbLoop(splits, children, fn, k - 1), splits[k], children[k], fn)

\* merge_buckets(splits, children, bucketize_fn)
merge_buckets(splits, children, fn) ==
    IF fn = "None"
    THEN [kind |-> "Pair", splits |-> splits, children |-> children]
    ELSE LET r == MbLoop(splits, children, fn, ZipLen(splits, children)) IN
         IF IsError(r) THEN r
         ELSE IF Len(r.splits) # Len(r.children) \/ Len(r.splits) = 0
              THEN Raise("AssertionError")
              ELSE r

-----------------------------------------------------------------------------
(* Census, selection and filter: simplify_greedy_runtime.py                *)

RECURSIVE Concat(_)
Concat(ss) == IF ss = <<>> THEN <<>> ELSE Head(ss) \o Concat(Tail(ss))

\* get_weighted_splits(node, weight): the census, in generation order.
RECURSIVE get_weighted_splits(_, _)
get_weighted_splits(n, weight) ==
    IF n.kind = "Leaf" THEN <<>>
    ELSE IF n.kind = "Tree" THEN
        [i \in 1..Len(n.splits) |-> [weight |-> weight, split |-> n.splits[i]]]
        \o Concat([i \in 1..Len(n.children) |->
                     get_weighted_splits(n.children[i],
                                         RDivInt(weight, Len(n.children)))])
    ELSE Concat([i \in 1..Len(n.trees) |-> get_weighted_splits(n.trees[i], weight)])

Census(n) == get_weighted_splits(n, <<1, 1>>)

\* find_best_split line 68-74: weights[feature] and cutpoints[feature].
FbsFeatures(ws) == {ws[i].split.feature : i \in 1..Len(ws)}

RECURSIVE FbsWeight(_, _)
FbsWeight(ws, feat) ==
    IF ws = <<>> THEN <<0, 1>>
    ELSE IF Head(ws).split.feature = feat
         THEN RAdd(Head(ws).weight, FbsWeight(Tail(ws), feat))
         ELSE FbsWeight(Tail(ws), feat)

\* Mutant: only the upper end of each split is recorded as a cut point.
FbsCutpointsMaxOnly(ws, feat) ==
    {ws[i].split.max : i \in {j \in 1..Len(ws) : ws[j].split.feature = feat}}

FbsCutpoints(ws, feat) ==
    LET own == {j \in 1..Len(ws) : ws[j].split.feature = feat} IN
    {ws[i].split.min : i \in own} \cup {ws[i].split.max : i \in own}

\* math.log(n, 2) in millionths, for n = 1 .. 8 distinct cut points.
Log2Micro == <<0, 1000000, 1584962, 2000000, 2321928, 2584962, 2807354, 3000000>>

\* saving(f) < saving(g), with saving(x) = weights[x] - log2(|cutpoints[x]|).
FbsSavingLess(ws, f, g) ==
    LET d == RSub(FbsWeight(ws, f), FbsWeight(ws, g))
        lf == Log2Micro[Cardinality(FbsCutpoints(ws, f))]
        lg == Log2Micro[Cardinality(FbsCutpoints(ws, g))]
    IN d[1] * 1000000 < (lf - lg) * d[2]

\* The place of a feature in the order its key entered the dict cutpoints.
FbsInsertion(ws, feat) == SetMin({i \in 1..Len(ws) : ws[i].split.feature = feat})

\* The iteration orders of a dict: insertion order (CPython 3.7 and later),
\* and its reverse as another order an interpreter may iterate in.
DictOrders == {"insertion", "reverse"}

\* max((feat for feat in cutpoints), key=saving): the first feature, in the
\* iteration order of the dict, of maximal saving.
FbsBest(ws, order) ==
    LET top == {f \in FbsFeatures(ws) :
                  \A g \in FbsFeatures(ws) : ~FbsSavingLess(ws, f, g)}
    IN CHOOSE f \in top :
          \A g \in top :
             IF order = "insertion"
             THEN FbsInsertion(ws, f) <= FbsInsertion(ws, g)
             ELSE FbsInsertion(ws, f) >= FbsInsertion(ws, g)

RECURSIVE SortedSeq(_)
SortedSeq(S) ==
    IF S = {} THEN <<>> ELSE <<SetMin(S)>> \o SortedSeq(S \ {SetMin(S)})

\* Mutant: the cuts are paired with the slice [2:], not [1:].
FbsSplitsCoarse(ws, best) ==
    LET sorted_cuts == SortedSeq(FbsCutpoints(ws, best)) IN
    [i \in 1..(Len(sorted_cuts) - 2) |->
        Split(best, sorted_cuts[i], sorted_cuts[i + 2])]

\* find_best_split line 83-85: one Split per pair of adjacent sorted cuts.
FbsSplits(ws, best) ==
    LET sorted_cuts == SortedSeq(FbsCutpoints(ws, best)) IN
    [i \in 1..(Len(sorted_cuts) - 1) |->
        Split(best, sorted_cuts[i], sorted_cuts[i + 1])]

\* find_best_split(weighted_splits)
find_best_split(ws, order) == FbsSplits(ws, FbsBest(ws, order))

\* Mutant: only the lower bound is tested.
FitsLowerBoundOnly(c_split, split) ==
    c_split.min <= split.min

\* filter_by_split line 100: c_split.min <= split.min and c_split.max >= split.max
Fits(c_split, split) ==
    c_split.min <= split.min /\ c_split.max >= split.max

RECURSIVE filter_by_split(_, _)
filter_by_split(n, split) ==
    IF n.kind = "Leaf" THEN n
    ELSE IF n.kind = "Tree" THEN
        IF n.feature = split.feature THEN
            LET fit == {i \in 1..ZipLen(n.splits, n.children) : Fits(n.splits[i], split)}
            IN IF fit = {} THEN Raise("ValueError") ELSE n.children[SetMin(fit)]
        ELSE
            LET kids == [i \in 1..Len(n.children) |-> filter_by_split(n.children[i], split)]
            IN IF AnyError(kids) THEN FirstError(kids)
               ELSE Tree(n.feature, n.splits, kids)
    ELSE
        LET kids == [i \in 1..Len(n.trees) |-> filter_by_split(n.trees[i], split)]
        IN IF AnyError(kids) THEN FirstError(kids) ELSE Forest(kids)

-----------------------------------------------------------------------------
(* The inputs of the model: well-formed nodes under the data model.        *)

\* Strictly ascending cut-point lists over CutPoints.
CutSeqs == {SortedSeq(S) : S \in SUBSET CutPoints}

LeafNodes == {Leaf(<<v, 1>>) : v \in 0..MaxLeaf}

\* A tree on f whose children are leaves; the leaf values rotate from b.
Stump(f, cs, b) ==
    make_tree(f, cs, [i \in 1..(Len(cs) + 1) |-> Leaf(<<(b + i) % (MaxLeaf + 1), 1>>)])

\* One-level trees: one-, two- and three-way on every feature.
Stumps == {Stump(f, cs, f) : f \in Feats, cs \in CutSeqs}

\* Two-level trees: under the upper branch, a three-way tree on X_2 (below
\* X_1, X_3 and X_2 itself), a tree on the same feature cut elsewhere, a
\* tree on another feature cut at the same point, or a Forest (a Tree's child
\* may be one); and a tree with a tree under each branch.
TwoLevel ==
    {make_tree(f, <<2>>, <<Leaf(<<0, 1>>), Stump(2, <<2, 4>>, 0)>>) : f \in Feats}
    \cup {make_tree(1, <<2>>, <<Leaf(<<0, 1>>), Stump(1, <<4>>, 0)>>),
          make_tree(3, <<2>>, <<Leaf(<<0, 1>>), Stump(1, <<2>>, 0)>>),
          make_tree(2, <<2>>, <<Leaf(<<0, 1>>),
                                Forest(<<Leaf(<<0, 1>>), Leaf(<<1, 1>>)>>)>>),
          make_tree(1, <<4>>, <<Stump(2, <<2>>, 0), Stump(3, <<2, 4>>, 1)>>)}

\* The members of an input Forest: trees or leaves.
Members == LeafNodes \cup Stumps \cup TwoLevel

\* A fixed enumeration of Members.  The mean of a Forest and the sums of the
\* census do not depend on the order of the members, only the order of the
\* dict does, which dict_order varies; so the input Forests are taken with
\* their members in enumeration order.
RECURSIVE SeqOfSet(_)
SeqOfSet(S) ==
    IF S = {} THEN <<>>
    ELSE LET x == CHOOSE y \in S : TRUE IN <<x>> \o SeqOfSet(S \ {x})

MemberSeq == SeqOfSet(Members)

InputForests ==
    {Forest([i \in 1..Len(ix) |-> MemberSeq[ix[i]]]) :
        ix \in {jx \in UNION {[1..n -> 1..Len(MemberSeq)] : n \in 1..MaxTrees} :
                  \A i \in 1..(Len(jx) - 1) : jx[i] <= jx[i + 1]}}

\* The features of the Trees of a node.
RECURSIVE FeaturesOf(_)
FeaturesOf(n) ==
    IF n.kind = "Leaf" THEN {}
    ELSE IF n.kind = "Tree"
         THEN {n.feature} \cup UNION {FeaturesOf(n.children[i]) : i \in 1..Len(n.children)}
         ELSE UNION {FeaturesOf(n.trees[i]) : i \in 1..Len(n.trees)}

\* Assignments of finite values to some, or to all, features.
PartialAssignments == UNION {[D -> FeatVals] : D \in SUBSET Feats}
FullAssignments == [Feats -> FeatVals]

-----------------------------------------------------------------------------
(* simplify(forest, bucketize_fn, depth): one activation record per call.  *)
(* pc "start" is the entry of the call, pc "loop" the list comprehension   *)
(* of line 128, whose next split is splits[Len(children) + 1].             *)

Pending == [kind |-> "Pending"]
Idle == [kind |-> "Idle"]

Frame(f, depth) ==
    [forest |-> f, pc |-> "start", splits |-> <<>>, children |-> <<>>, depth |-> depth]

Top == stack[Len(stack)]

LibUnchanged == UNCHANGED <<node, args, val_dict, value>>

\* A call returns v to its caller, or raises v through every caller.
Return(v) ==
    IF IsError(v) \/ Len(stack) = 1
    THEN /\ result' = v
         /\ stack' = <<>>
    ELSE /\ result' = result
         /\ stack' = [SubSeq(stack, 1, Len(stack) - 1)
                        EXCEPT ![Len(stack) - 1].children = Append(@, v)]

\* Lines 113-117: the census is empty, the forest is collapsed.
SimplifyCollapse ==
    /\ stack # <<>>
    /\ Top.pc = "start"
    /\ Census(Top.forest) = <<>>
    /\ Return(collapse_leaf_forest(Top.forest))
    /\ UNCHANGED <<forest, bucketize, dict_order>>
    /\ LibUnchanged

\* Lines 119-120: the splits of the feature to hoist.
SimplifySelect ==
    /\ stack # <<>>
    /\ Top.pc = "start"
    /\ Census(Top.forest) # <<>>
    /\ stack' = [stack EXCEPT
                    ![Len(stack)].pc = "loop",
                    ![Len(stack)].splits = find_best_split(Census(Top.forest), dict_order)]
    /\ UNCHANGED <<forest, bucketize, dict_order, result>>
    /\ LibUnchanged

\* Line 128: filter the forest by the next split and recurse into it.
SimplifyRecurse ==
    /\ stack # <<>>
    /\ Top.pc = "loop"
    /\ Len(Top.children) < Len(Top.splits)
    /\ LET sub == filter_by_split(Top.forest, Top.splits[Len(Top.children) + 1]) IN
       IF IsError(sub)
       THEN /\ result' = sub
            /\ stack' = <<>>
       ELSE /\ stack' = Append(stack, Frame(sub, Top.depth + 1))
            /\ result' = result
    /\ UNCHANGED <<forest, bucketize, dict_order>>
    /\ LibUnchanged

\* Lines 131-135: merge the buckets and build the node to return.
SimplifyBuild ==
    /\ stack # <<>>
    /\ Top.pc = "loop"
    /\ Len(Top.children) = Len(Top.splits)
    /\ LET merged == merge_buckets(Top.splits, Top.children, bucketize) IN
       Return(IF IsError(merged) THEN merged
              ELSE IF Len(merged.splits) > 1
                   THEN Tree(merged.splits[1].feature, merged.splits, merged.children)
              ELSE IF Len(merged.splits) = 1 THEN merged.children[1]
              ELSE [kind |-> "None"])
    /\ UNCHANGED <<forest, bucketize, dict_order>>
    /\ LibUnchanged

Init ==
    /\ forest \in InputForests
    /\ bucketize \in BucketizeFns
    /\ dict_order \in DictOrders
    /\ stack = <<Frame(forest, 0)>>
    /\ result = Pending
    /\ node = Idle
    /\ args = Idle
    /\ val_dict = <<>>
    /\ value = Idle

Next ==
    \/ SimplifyCollapse
    \/ SimplifySelect
    \/ SimplifyRecurse
    \/ SimplifyBuild

Spec == Init /\ [][Next]_vars

-----------------------------------------------------------------------------
(* The library calls on their own: a node is constructed and then          *)
(* evaluated, or a pair of lists is merged.                                *)

\* A make_tree call may be handed up to MaxChildren children, whatever the
\* number of its cut points.
MaxChildren == 3
\* A merge_buckets call is handed lists of 1 .. MaxSplits entries.
MaxSplits == 3

SeqsUpTo(S, lo, hi) == UNION {[1..n -> S] : n \in lo..hi}

MtChildren == LeafNodes \cup {Stump(3, <<4>>, 0)}

\* Contiguous bounds -INF, 2, 4, ..., INF of a split list of n entries.
MbBound(n, i) == IF i = 0 THEN -INF ELSE IF i = n THEN INF ELSE 2 * i

\* Split lists handed to merge_buckets: contiguous intervals, each entry on
\* either of two features.
MbSplitLists ==
    UNION {{[i \in 1..n |-> Split(fs[i], MbBound(n, i - 1), MbBound(n, i))] :
               fs \in [1..n -> {1, 2}]} : n \in 1..MaxSplits}

MbChildNodes ==
    {Leaf(<<0, 1>>), Leaf(<<1, 2>>), Leaf(<<1, 1>>), Stump(3, <<4>>, 0)}

SimplifyUnchanged == UNCHANGED <<forest, bucketize, dict_order, stack, result>>

\* A well-formed node is built (by make_tree, Forest and Leaf).
LibConstruct ==
    /\ args = Idle
    /\ \E n \in Members \cup InputForests : node' = n
    /\ args' = [op |-> "construct"]
    /\ val_dict' = <<>>
    /\ value' = Idle
    /\ SimplifyUnchanged

\* make_tree(var, cutpoints, children) with any number of children.
LibMakeTree ==
    /\ args = Idle
    /\ \E var \in Feats, cutpoints \in CutSeqs,
          children \in SeqsUpTo(MtChildren, 0, MaxChildren) :
          /\ node' = make_tree(var, cutpoints, children)
          /\ args' = [op |-> "make_tree", var |-> var,
                      cutpoints |-> cutpoints, children |-> children]
    /\ val_dict' = <<>>
    /\ value' = Idle
    /\ SimplifyUnchanged

\* calculate_value(node, val_dict) on the node last built.
LibCalculateValue ==
    /\ node # Idle
    /\ value = Idle
    /\ \E vd \in PartialAssignments :
          /\ val_dict' = vd
          /\ value' = calculate_value(node, vd)
    /\ UNCHANGED <<node, args>>
    /\ SimplifyUnchanged

\* merge_buckets(splits, children, bucketize_fn) on equal-length lists.
LibMergeBuckets ==
    /\ args = Idle
    /\ \E splits \in MbSplitLists, fn \in BucketizeFns :
          \E children \in [1..Len(splits) -> MbChildNodes] :
             /\ args' = [op |-> "merge_buckets", splits |-> splits,
                         children |-> children, fn |-> fn]
             /\ value' = merge_buckets(splits, children, fn)
    /\ node' = Idle
    /\ val_dict' = <<>>
    /\ SimplifyUnchanged

\* The splits handed to filter_by_split: intervals between cut points.
FilterBounds == {-INF, INF} \cup CutPoints

FilterSplits ==
    {Split(f, b[1], b[2]) :
        f \in Feats, b \in {c \in FilterBounds \X FilterBounds : c[1] < c[2]}}

\* filter_by_split(node, split) on the node last built.
LibFilterBySplit ==
    /\ args # Idle
    /\ args.op = "construct"
    /\ value = Idle
    /\ \E split \in FilterSplits :
          /\ args' = [op |-> "filter_by_split", split |-> split]
          /\ value' = filter_by_split(node, split)
    /\ UNCHANGED <<node, val_dict>>
    /\ SimplifyUnchanged

InitLib ==
    /\ forest = Idle
    /\ bucketize = "None"
    /\ dict_order = "insertion"
    /\ stack = <<>>
    /\ result = Idle
    /\ node = Idle
    /\ args = Idle
    /\ val_dict = <<>>
    /\ value = Idle

NextLib ==
    \/ LibConstruct
    \/ LibMakeTree
    \/ LibCalculateValue
    \/ LibMergeBuckets
    \/ LibFilterBySplit

SpecLib == InitLib /\ [][NextLib]_vars

-----------------------------------------------------------------------------
(* Vocabulary of the properties.                                           *)

\* simplify_test.check_equal_calculations: delta = 0.00001 = 1 / DeltaInv.
DeltaInv == 100000

\* abs(a - b) < delta, for two values; an error is close to nothing.
Close(a, b) ==
    /\ a.kind = "Val"
    /\ b.kind = "Val"
    /\ LET d == RSub(a.v, b.v) IN Abs(d[1]) * DeltaInv < d[2]

Done == stack = <<>> /\ result # Idle
Returned == Done /\ ~IsError(result)

\* calculate_value(simplify(forest), A): simplify's error, if it raised one.
SimplifiedValue(A) == IF IsError(result) THEN result ELSE calculate_value(result, A)

\* A Tree is total and contiguous: the child of a value v is the one after
\* the splits whose upper end lies strictly below v.
ChildIndex(n, v) == 1 + Cardinality({i \in 1..(Len(n.splits) - 1) : n.splits[i].max < v})

\* The features of the Trees the evaluation under A visits: all members of
\* a Forest, the selected child of a Tree, nothing below a Tree whose
\* feature A lacks.
RECURSIVE VisitedFeatures(_, _)
VisitedFeatures(n, A) ==
    IF n.kind = "Leaf" THEN {}
    ELSE IF n.kind = "Tree" THEN
        {n.feature} \cup
        (IF n.feature \in DOMAIN A
         THEN VisitedFeatures(n.children[ChildIndex(n, A[n.feature])], A)
         ELSE {})
    ELSE UNION {VisitedFeatures(n.trees[i], A) : i \in 1..Len(n.trees)}

\* The assignments that cover the features F's evaluation needs.
Covering(f) == {A \in PartialAssignments : VisitedFeatures(f, A) \subseteq DOMAIN A}

RECURSIVE HasForest(_)
HasForest(n) ==
    IF n.kind = "Leaf" THEN FALSE
    ELSE IF n.kind = "Tree" THEN \E i \in 1..Len(n.children) : HasForest(n.children[i])
    ELSE TRUE

\* Some Tree of the forest has a Forest below it.
ForestBelowTree(f) == \E i \in 1..Len(f.trees) : HasForest(f.trees[i])

\* Section 3's invariant of one Tree node.
ValidTree(n) ==
    /\ Len(n.splits) = Len(n.children)
    /\ Len(n.splits) >= 1
    /\ \A i \in 1..Len(n.splits) :
          n.splits[i].feature = n.feature /\ n.splits[i].min < n.splits[i].max
    /\ n.splits[1].min = -INF
    /\ n.splits[Len(n.splits)].max = INF
    /\ \A i \in 1..(Len(n.splits) - 1) : n.splits[i].max = n.splits[i + 1].min

RECURSIVE AllTreesValid(_)
AllTreesValid(n) ==
    IF n.kind = "Leaf" THEN TRUE
    ELSE IF n.kind = "Tree"
         THEN ValidTree(n) /\ \A i \in 1..Len(n.children) : AllTreesValid(n.children[i])
    ELSE IF n.kind = "Forest"
         THEN \A i \in 1..Len(n.trees) : AllTreesValid(n.trees[i])
    ELSE FALSE

\* Every Tree on split.feature that filter_by_split(n, split) reaches has
\* exactly one child split the split fits in.
RECURSIVE OneFitEverywhere(_, _)
OneFitEverywhere(n, split) ==
    IF n.kind = "Leaf" THEN TRUE
    ELSE IF n.kind = "Tree" THEN
        IF n.feature = split.feature
        THEN Cardinality({i \in 1..Len(n.splits) :
                            n.splits[i].min <= split.min /\ n.splits[i].max >= split.max}) = 1
        ELSE \A i \in 1..Len(n.children) : OneFitEverywhere(n.children[i], split)
    ELSE \A i \in 1..Len(n.trees) : OneFitEverywhere(n.trees[i], split)

\* The calls of the recursion that are at their list comprehension with a
\* split still to filter by: the call filter_by_split(forest, split) of each
\* is the one being made (top of the stack) or the one whose result the
\* next activation record holds.
FilterCalls ==
    {i \in 1..Len(stack) :
        stack[i].pc = "loop" /\ Len(stack[i].children) < Len(stack[i].splits)}

FilterSplit(i) == stack[i].splits[Len(stack[i].children) + 1]

-----------------------------------------------------------------------------
(* Properties of simplify (specification Spec).                            *)

\* C1: without a bucketize function, for every well-formed forest F and every
\* assignment A of all features, calculate_value(simplify(F), A) equals
\* calculate_value(F, A) within the tolerance 1e-5.
C1_Equivalence ==
    (Done /\ bucketize = "None") =>
        \A A \in FullAssignments : Close(SimplifiedValue(A), calculate_value(forest, A))

\* C1, on the forests that have no Forest below a Tree: the equivalence holds.
C1_EquivalenceOfFlatForests ==
    (Done /\ bucketize = "None" /\ ~ForestBelowTree(forest)) =>
        \A A \in FullAssignments : Close(SimplifiedValue(A), calculate_value(forest, A))

C3_ReturnsForestFreeNode ==
    Done => result.kind \in {"Leaf", "Tree"} /\ ~HasForest(result)

\* C4: every Tree anywhere in a node simplify returned (from the outermost
\* call or from a recursive one), with or without bucketize, has equally many
\* splits and children (at least one), all splits on its own feature,
\* ascending and contiguous from -infinity to +infinity.
C4_OutputTreesValid ==
    /\ Returned => AllTreesValid(result)
    /\ \A i \in 1..Len(stack) :
          \A k \in 1..Len(stack[i].children) : AllTreesValid(stack[i].children[k])

\* C4 witness: with a bucketize function, simplify returned a Tree that has a
\* Tree below it and fewer splits than find_best_split made for its feature.
C4_Witness ==
    /\ Returned
    /\ bucketize # "None"
    /\ result.kind = "Tree"
    /\ \E k \in 1..Len(result.children) : result.children[k].kind = "Tree"
    /\ Len(result.splits) < Len(FbsSplits(Census(forest), result.feature))

\* C9: in every call filter_by_split(F, s) simplify makes, each Tree on
\* s.feature the filter reaches has exactly one child split containing s, and
\* the ValueError of filter_by_split is never raised.
C9_SplitFitsExactlyOneChild ==
    /\ \A i \in FilterCalls : OneFitEverywhere(stack[i].forest, FilterSplit(i))
    /\ result # Raise("ValueError")

\* C9 witness: a recursive call filters a forest holding two Trees on the
\* hoisted feature with different cut points, by a split between them.
C9_Witness ==
    /\ stack # <<>>
    /\ Len(stack) \in FilterCalls
    /\ Top.depth >= 1
    /\ FilterSplit(Len(stack)).min # -INF
    /\ FilterSplit(Len(stack)).max # INF
    /\ \E i, j \in 1..Len(Top.forest.trees) :
          /\ Top.forest.trees[i].kind = "Tree"
          /\ Top.forest.trees[j].kind = "Tree"
          /\ Top.forest.trees[i].feature = FilterSplit(Len(stack)).feature
          /\ Top.forest.trees[j].feature = FilterSplit(Len(stack)).feature
          /\ Top.forest.trees[i].splits # Top.forest.trees[j].splits

\* C10: the forest of every recursive call has no split on the feature its
\* caller hoisted, and the depth of the recursion never exceeds the number
\* of distinct features of the input forest.
C10_HoistedFeatureGone ==
    \A i \in 2..Len(stack) :
        /\ stack[i - 1].splits[1].feature \notin FbsFeatures(Census(stack[i].forest))
        /\ stack[i].depth <= Cardinality(FeaturesOf(forest))

-----------------------------------------------------------------------------
(* Properties of the library calls (specification SpecLib).                *)

Evaluated == value # Idle /\ args # Idle /\ args.op \in {"construct", "make_tree"}

\* C5: on a well-formed node, calculate_value raises KeyError exactly when a
\* Tree it visits (every member of a Forest, the selected child of a Tree)
\* has a feature the assignment lacks; features of unvisited Trees may be
\* absent.
C5_KeyErrorIffVisitedFeatureMissing ==
    (Evaluated /\ args.op = "construct") =>
        (value = Raise("KeyError")
            <=> ~(VisitedFeatures(node, val_dict) \subseteq DOMAIN val_dict))

\* C5 witness: a node evaluates to a value under an assignment that lacks
\* one of its features (a Tree on it is never visited).
C5_Witness ==
    /\ Evaluated
    /\ args.op = "construct"
    /\ value.kind = "Val"
    /\ ~(FeaturesOf(node) \subseteq DOMAIN val_dict)

\* The make_tree call had one child more than cut points.
MtShaped == Len(args.children) = Len(args.cutpoints) + 1

\* C6: for a Tree from make_tree with k ascending cut points and k + 1
\* children and a finite value v of its feature, calculate_value descends
\* into the child whose 0-based number is the number of cut points strictly
\* below v (so v equal to a cut point takes the lower branch), and exactly
\* one split matches v.
C6_ChildIsNumberOfCutpointsBelow ==
    (Evaluated /\ args.op = "make_tree" /\ MtShaped /\ args.var \in DOMAIN val_dict) =>
        LET v == val_dict[args.var]
            below == Cardinality({k \in 1..Len(args.cutpoints) : args.cutpoints[k] < v})
        IN /\ value = calculate_value(args.children[below + 1], val_dict)
           /\ Cardinality({k \in 1..Len(node.splits) :
                             node.splits[k].min < v /\ v <= node.splits[k].max}) = 1

\* C6 witness: a three-way Tree evaluated at a value equal to its upper cut
\* point returns the value of its middle child, which differs from the next.
C6_Witness ==
    /\ Evaluated
    /\ args.op = "make_tree"
    /\ MtShaped
    /\ Len(args.cutpoints) = 2
    /\ args.var \in DOMAIN val_dict
    /\ val_dict[args.var] = args.cutpoints[2]
    /\ args.children[2].kind = "Leaf"
    /\ args.children[3].kind = "Leaf"
    /\ args.children[2] # args.children[3]
    /\ value = Val(args.children[2].value)

Merged == args # Idle /\ args.op = "merge_buckets"

SameFeature(splits) == \A i, j \in 1..Len(splits) : splits[i].feature = splits[j].feature

\* What C7 says of a returned pair of lists.
MbLengthsOk ==
    /\ value.kind = "Pair"
    /\ Len(value.splits) = Len(value.children)
    /\ 1 <= Len(value.splits)
    /\ Len(value.splits) <= Len(args.splits)
    /\ args.fn = "None" =>
          value.splits = args.splits /\ value.children = args.children

\* C7 as stated: for every pair of equal-length non-empty lists and every
\* bucketize function, merge_buckets returns equal-length lists of at least
\* one and at most len(splits) entries, and its inputs when bucketize is
\* absent.
C7_MergeLengths == Merged => MbLengthsOk

\* C7 amended: merge_buckets returns such lists whenever the splits are all on
\* one feature or bucketize is absent; otherwise it returns such lists or
\* fails its assertion ret_splits[-1].feature == split.feature.
C7_MergeLengthsOnOneFeature ==
    Merged =>
        IF SameFeature(args.splits) \/ args.fn = "None"
        THEN MbLengthsOk
        ELSE MbLengthsOk \/ value = Raise("AssertionError")

\* C7 witness: with a bucketize function, lists of three entries on one
\* feature are merged into fewer, but not into one.
C7_Witness ==
    /\ Merged
    /\ args.fn # "None"
    /\ SameFeature(args.splits)
    /\ value.kind = "Pair"
    /\ Len(args.splits) = 3
    /\ Len(value.splits) = 2

\* C8: make_tree with a number of children other than len(cutpoints) + 1 is
\* rejected with an error, so calculate_value never sees a Tree whose splits
\* and children differ in number.
C8_MalformedTreeRejected ==
    /\ (args # Idle /\ args.op = "make_tree" /\ ~MtShaped) => IsError(node)
    /\ (Evaluated /\ node.kind = "Tree") => Len(node.splits) = Len(node.children)

-----------------------------------------------------------------------------
(* The base case of simplify.                                              *)

\* The activations of simplify that are at the entry of the call with an
\* empty census: the ones that go on to collapse_leaf_forest.
BaseCases == {i \in 1..Len(stack) : stack[i].pc = "start" /\ Census(stack[i].forest) = <<>>}

\* The arithmetic mean of the values of the members of a forest of leaves.
MeanOfLeaves(f) ==
    RDivInt(RSum([i \in 1..Len(f.trees) |-> f.trees[i].value]), Len(f.trees))

\* C11: whenever simplify finds the census of its current (sub)forest empty,
\* every member of that forest is a Leaf, and collapse_leaf_forest returns the
\* Leaf whose value is the mean of the members' values.
C11_EmptyCensusMeansAllLeaves ==
    \A i \in BaseCases :
        /\ \A k \in 1..Len(stack[i].forest.trees) : stack[i].forest.trees[k].kind = "Leaf"
        /\ collapse_leaf_forest(stack[i].forest) = Leaf(MeanOfLeaves(stack[i].forest))

-----------------------------------------------------------------------------
(* The filter on its own.                                                  *)

Filtered == args # Idle /\ args.op = "filter_by_split"

\* The split fits inside exactly one split of every Tree on its feature
\* anywhere in n.
RECURSIVE InsideOneSplitOfEachTree(_, _)
InsideOneSplitOfEachTree(n, s) ==
    IF n.kind = "Leaf" THEN TRUE
    ELSE IF n.kind = "Forest"
         THEN \A i \in 1..Len(n.trees) : InsideOneSplitOfEachTree(n.trees[i], s)
    ELSE /\ n.feature = s.feature =>
               Cardinality({i \in 1..Len(n.splits) :
                              n.splits[i].min <= s.min /\ s.max <= n.splits[i].max}) = 1
         /\ \A i \in 1..Len(n.children) : InsideOneSplitOfEachTree(n.children[i], s)

\* The assignments under which the split holds.
Holding(s) ==
    {A \in PartialAssignments :
        s.feature \in DOMAIN A /\ s.min < A[s.feature] /\ A[s.feature] <= s.max}

\* m has the shape of n filtered by s: a Leaf is itself, a Forest a Forest of
\* as many members, each with the shape of the member at its place, a Tree on
\* another feature a Tree with that feature and those splits.
RECURSIVE KeepsShape(_, _, _)
KeepsShape(n, m, s) ==
    IF n.kind = "Leaf" THEN m = n
    ELSE IF n.kind = "Forest"
         THEN /\ m.kind = "Forest"
              /\ Len(m.trees) = Len(n.trees)
              /\ \A i \in 1..Len(n.trees) : KeepsShape(n.trees[i], m.trees[i], s)
    ELSE IF n.feature = s.feature THEN TRUE
    ELSE /\ m.kind = "Tree"
         /\ m.feature = n.feature
         /\ m.splits = n.splits
         /\ Len(m.children) = Len(n.children)
         /\ \A i \in 1..Len(n.children) : KeepsShape(n.children[i], m.children[i], s)

\* C12: for every node N, every split s that fits inside a single split of
\* each Tree on its feature in N, and every assignment A under which s holds,
\* filter_by_split(N, s) evaluates under A to what N evaluates to; and the
\* filter keeps the shape: a Leaf unchanged, a Forest a Forest of the same
\* number of members in the same order, a Tree on another feature with its
\* feature and splits.
C12_FilterKeepsValueAndShape ==
    (Filtered /\ InsideOneSplitOfEachTree(node, args.split)) =>
        /\ ~IsError(value)
        /\ \A A \in Holding(args.split) :
              calculate_value(value, A) = calculate_value(node, A)
        /\ KeepsShape(node, value, args.split)

\* C12 witness: a Forest of two Trees is filtered by a split between the cut
\* points of its three-way Tree on the split's feature; the other Tree, on
\* another feature, is kept with a child pruned, and the filtered Forest
\* evaluates to a number.
C12_Witness ==
    /\ Filtered
    /\ InsideOneSplitOfEachTree(node, args.split)
    /\ args.split.min = 2
    /\ args.split.max = 4
    /\ node.kind = "Forest"
    /\ value.kind = "Forest"
    /\ Len(node.trees) = 2
    /\ \E i, j \in 1..2 :
          /\ node.trees[i].kind = "Tree"
          /\ node.trees[i].feature = args.split.feature
          /\ Len(node.trees[i].splits) = 3
          /\ node.trees[j].kind = "Tree"
          /\ node.trees[j].feature # args.split.feature
          /\ value.trees[j].kind = "Tree"
          /\ value.trees[j] # node.trees[j]
    /\ \E A \in Holding(args.split) : calculate_value(value, A).kind = "Val"

-----------------------------------------------------------------------------
(* The semantics of a merged (splits, children) pair.                      *)

\* The merge_buckets calls with a bucketize function on the contiguous splits
\* of one feature.
MergedWithBuckets == Merged /\ args.fn # "None" /\ SameFeature(args.splits)

\* The feature values below, at, between and above the bounds of the lists.
MbVals == 1..(2 * MaxSplits - 1)

\* The places of the splits that hold for the feature value v.
Selecting(splits, v) == {i \in 1..Len(splits) : splits[i].min < v /\ v <= splits[i].max}

\* A child with Leaf(x) replaced by Leaf(b(x)).
WithBucket(child, fn) ==
    IF child.kind = "Leaf" THEN Leaf(ApplyBucketize(fn, child.value)) ELSE child

\* g sends each input entry to the retained entry it went into: the first to
\* the first, each next one to the same entry as the one before it (merged)
\* or to the next retained entry (appended), the last to the last.
Groupings(n, m) ==
    {g \in [1..n -> 1..m] :
        /\ g[1] = 1
        /\ g[n] = m
        /\ \A i \in 1..(n - 1) : g[i + 1] = g[i] \/ g[i + 1] = g[i] + 1}

\* C13: with a bucketize function b, for contiguous input splits and every
\* feature value v the child the merged splits select for v is the child the
\* input splits select for v with Leaf(x) replaced by Leaf(b(x)); an entry is
\* merged only into the entry retained just before it, by extending that
\* entry's max to its own max, and only when the bucketized children are
\* equal; no two adjacent retained children are equal.
C13_MergeKeepsSelection ==
    MergedWithBuckets =>
        /\ value.kind = "Pair"
        /\ \A v \in MbVals :
              \A i \in Selecting(args.splits, v) :
                 /\ Cardinality(Selecting(value.splits, v)) = 1
                 /\ \A k \in Selecting(value.splits, v) :
                       value.children[k] = WithBucket(args.children[i], args.fn)
        /\ \A k \in 1..(Len(value.children) - 1) :
              value.children[k] # value.children[k + 1]
        /\ \E g \in Groupings(Len(args.splits), Len(value.splits)) :
              \A i \in 1..Len(args.splits) :
                 /\ value.children[g[i]] = WithBucket(args.children[i], args.fn)
                 /\ value.splits[g[i]].feature = args.splits[i].feature
                 /\ (i = 1 \/ g[i - 1] # g[i]) => value.splits[g[i]].min = args.splits[i].min
                 /\ (i = Len(args.splits) \/ g[i + 1] # g[i]) =>
                       value.splits[g[i]].max = args.splits[i].max

\* C13 witness: three entries whose first two children are different leaves
\* that the bucketize function makes equal, and whose third is a Tree: the
\* first two are merged into one entry from -INF to the second cut point.
C13_Witness ==
    /\ MergedWithBuckets
    /\ value.kind = "Pair"
    /\ Len(args.splits) = 3
    /\ args.children[1].kind = "Leaf"
    /\ args.children[2].kind = "Leaf"
    /\ args.children[1] # args.children[2]
    /\ args.children[3].kind = "Tree"
    /\ Len(value.splits) = 2
    /\ value.splits[1].min = -INF
    /\ value.splits[1].max = 4
    /\ value.children[2].kind = "Tree"

=============================================================================
